---- MODULE Spec2Model ----
(***************************************************************************)
(* Model of the usage enforcement engine of ocserv-panel:                  *)
(*   panel/services/quota.py    QuotaService   (quota check, limiter, bans) *)
(*   panel/services/traffic.py  TrafficService (traffic delta tracking)     *)
(*   panel/models/user.py       User           (account policy)             *)
(*   panel/services/ocserv.py   OCServService  (the occtl/ocpasswd adapter) *)
(* Time is counted in milliseconds; None is NoDate.                         *)
(***************************************************************************)
EXTENDS Integers, Sequences, FiniteSets, TLC

VARIABLES
    now,            \* datetime.now()
    users,          \* the users table, as committed
    online,         \* the daemon's live sessions (rows of `occtl show users`)
    next_id,        \* the daemon's next session id
    counters,       \* the daemon's per-user RX/TX (`occtl show user <name>`)
    locked,         \* usernames locked in the ocpasswd file
    last_traffic,   \* TrafficService._last_traffic
    blocked_ips,    \* QuotaService._blocked_ips
    blocked_file,   \* the lines of QuotaService.BLOCKED_FILE
    timers,         \* pending _unblock_ip_later tasks, in order of creation
    running,        \* per periodic task: where its coroutine is suspended
    tick,           \* what the last periodic task did (history)
    tracked,        \* per account, since its snapshot entry was created: the
                    \* first reading and the deltas computed since (history)
    spared,         \* per account: the tasks that ran while it was inactive with
                    \* a live session and issued no disconnect for it (history)
    budget,         \* environment events left (bounds the exploration)
    faults          \* failures of the adapter, the file and the store left

vars == <<now, users, online, next_id, counters, locked, last_traffic,
          blocked_ips, blocked_file, timers, running, tick, tracked, spared,
          budget, faults>>

-----------------------------------------------------------------------------
(* Bounds of the exploration *)

MaxSessions == 3
MaxEvents == 3
MaxCounter == 1
MaxFaults == 1

(* Program constants *)

BanSeconds == 86400
GraceSeconds == 120
DaySeconds == 86400
Ms == 1000
DefaultMaxConnections == 2

NoDate == -1
NONE == "(none)"
Users == {"alice", "bob"}
IPs == {"10.0.0.1", "10.0.0.2"}
NoEntry == [rx |-> -1, tx |-> -1]

\* the jobs of the scheduler (app.py lines 90-107)
TaskNames == {"traffic", "quota", "limit"}

\* a task whose coroutine is not in flight
Idle == [at |-> "idle"]

\* add_job without max_instances (app.py lines 90-107): the scheduler starts a
\* run of a job only when its previous run has returned
Free(task, r) == r[task] = Idle

Max(a, b) == IF a >= b THEN a ELSE b

-----------------------------------------------------------------------------
(* models/user.py *)

NewUser(max_traffic, expire_date, max_connections) ==
    [max_traffic |-> max_traffic,
     used_traffic |-> 0,
     reset_period_days |-> 0,
     last_reset_date |-> NoDate,
     expire_date |-> expire_date,
     max_connections |-> max_connections,
     is_active |-> TRUE,
     is_online |-> FALSE,
     current_connections |-> 0]

\* expiry that includes the instant of expire_date
is_expired_Inclusive(u, t) ==
    IF u.expire_date = NoDate THEN FALSE ELSE t >= u.expire_date

is_expired(u, t) ==
    IF u.expire_date = NoDate THEN FALSE ELSE t > u.expire_date

is_traffic_exceeded(u) ==
    IF u.max_traffic = 0 THEN FALSE ELSE u.used_traffic >= u.max_traffic

needs_traffic_reset(u, t) ==
    IF u.reset_period_days <= 0 THEN FALSE
    ELSE IF u.last_reset_date = NoDate THEN TRUE
    ELSE t >= u.last_reset_date + u.reset_period_days * DaySeconds * Ms

reset_traffic(u, t) ==
    [u EXCEPT !.used_traffic = 0, !.last_reset_date = t]

-----------------------------------------------------------------------------
(* The history record of a periodic task *)

\* tracked[u] while u has no snapshot entry
NoTrack == [first |-> NoEntry, credited |-> 0, monotone |-> TRUE]

NoCalls == [u \in Users |-> 0]

NoTick(pre) ==
    [task |-> "none", pre |-> pre, rows |-> {}, live |-> {}, committed |-> TRUE,
     disconnect_user |-> NoCalls, lock_user |-> NoCalls, unlock_user |-> NoCalls,
     delta |-> NoCalls, obs |-> <<>>, reason |-> [u \in Users |-> ""],
     disconnect_by_id |-> {}, disconnected |-> {}, write_failed |-> {},
     ip |-> "", ok |-> TRUE, again |-> FALSE, raised |-> FALSE, escaped |-> FALSE, returned |-> {},
     pre_blocked_ips |-> <<>>, pre_blocked_file |-> <<>>]

\* an except clause that logs and raises the exception again
Except_Reraise(task) ==
    [escaped |-> TRUE, rollback |-> task \in {"traffic", "quota"}]

\* the except clause that closes the body of each task (traffic.py lines
\* 99-101, quota.py lines 186-188 and 271-272): every Exception is logged, the
\* traffic and the quota task roll the session back, and the task returns
Except(task) ==
    [escaped |-> FALSE, rollback |-> task \in {"traffic", "quota"}]

\* spared after a step: `task` is the periodic task the step ran ("none" for any
\* other step), `hit` the accounts it issued a disconnect for
Spared(task, hit, users_after, online_after) ==
    [u \in Users |->
        IF users_after[u].is_active \/ u \in hit
           \/ u \notin {c.username : c \in online_after}
        THEN {}
        ELSE IF task # "none" /\ ~users[u].is_active
                /\ u \in {c.username : c \in online}
        THEN spared[u] \cup {task}
        ELSE spared[u]]

-----------------------------------------------------------------------------
(* services/ocserv.py: the adapter, as far as the engine uses it *)

\* the rows of one user, in the order `occtl show users` lists them
RECURSIVE SortById(_)
SortById(S) ==
    IF S = {} THEN <<>>
    ELSE LET lo == CHOOSE c \in S : \A d \in S : c.id <= d.id
         IN <<lo>> \o SortById(S \ {lo})

\* get_online_users: the rows, or [] when occtl fails
get_online_users(ok) == IF ok THEN SortById(online) ELSE <<>>

\* conn.get("client_ip") of a row that has no such key
NoIp == ""

\* remote_api.py lines 234-246, passed on unchanged by remote_sync.py
\* get_online_users (lines 161-164) and ocserv.py lines 190-194: the row of the
\* remote server carries the id and the username; the address is under the key
\* "ip" and the connection time under "connected_since", so the keys
\* "client_ip" and "connected_at" are missing
RemoteRow(c) == [c EXCEPT !.client_ip = NoIp, !.connected_at = NoDate]

\* get_online_users with the sync enabled and a remote list that is not empty
remote_get_online_users ==
    [i \in 1..Len(SortById(online)) |-> RemoteRow(SortById(online)[i])]

\* disconnect_by_id: `occtl disconnect id`; st carries the state a task works on
disconnect_by_id(st, id, ok) ==
    [st EXCEPT !.disconnect_by_id = @ \cup {id},
               !.disconnected = IF ok THEN @ \cup {id} ELSE @,
               !.online = IF ok THEN {c \in @ : c.id # id} ELSE @]

\* the usernames that have a session
Live(on) == {c.username : c \in on}

\* the daemon keeps counters per session: a user without a session has none
DaemonCounters(on) ==
    [u \in Users |-> IF u \in Live(on) THEN counters[u] ELSE [rx |-> 0, tx |-> 0]]

\* get_user_traffic: `occtl show user`; rx = tx = 0 when it prints no RX line
get_user_traffic(on, username) ==
    IF username \in Live(on) THEN counters[username] ELSE [rx |-> 0, tx |-> 0]

\* disconnect_user: `occtl disconnect user`
disconnect_user(st, username, ok) ==
    [st EXCEPT !.disconnect_user[username] = @ + 1,
               !.online = IF ok THEN {c \in @ : c.username # username} ELSE @]

\* lock_user: `ocpasswd -l`
lock_user(st, username, ok) ==
    [st EXCEPT !.lock_user[username] = @ + 1,
               !.locked = IF ok THEN @ \cup {username} ELSE @]

\* unlock_user: `ocpasswd -u`
unlock_user(st, username, ok) ==
    [st EXCEPT !.unlock_user[username] = @ + 1,
               !.locked = IF ok THEN @ \ {username} ELSE @]

-----------------------------------------------------------------------------
(* services/quota.py: the temporary ban manager *)

NoBlock == [unblock_time |-> NoDate, blocked_at |-> NoDate, username |-> ""]

\* _temp_block_ip: the append to BLOCKED_FILE comes first; when it raises, the
\* except clause logs and nothing else of the function runs
temp_block_ip(st, ip, username, seconds, write_ok) ==
    IF ~write_ok
    THEN [st EXCEPT !.write_failed = @ \cup {ip}]
    ELSE [st EXCEPT
            !.blocked_file = Append(@, ip),
            !.blocked_ips = [@ EXCEPT ![ip] =
                                [unblock_time |-> now + seconds * Ms,
                                 blocked_at |-> now,
                                 username |-> username]],
            !.timers = Append(@, [ip |-> ip, at |-> now + seconds * Ms])]

\* get_blocked_ips keeping an entry whose unblock_time is the present instant
get_blocked_ips_Inclusive(b, t) ==
    {[ip |-> ip,
      username |-> b[ip].username,
      remaining_seconds |-> (b[ip].unblock_time - t) \div Ms] :
        ip \in {i \in IPs : b[i] # NoBlock /\ b[i].unblock_time >= t}}

\* get_blocked_ips: the entries returned (the scan also prunes, see GetBlockedIps)
get_blocked_ips(b, t) ==
    {[ip |-> ip,
      username |-> b[ip].username,
      remaining_seconds |-> (b[ip].unblock_time - t) \div Ms] :
        ip \in {i \in IPs : b[i] # NoBlock /\ b[i].unblock_time > t}}

-----------------------------------------------------------------------------
(* services/quota.py: check_connection_limits *)

\* the usernames of the rows, in order of first appearance (dict insertion order)
RECURSIVE GroupOrder(_, _)
GroupOrder(rows, seen) ==
    IF rows = <<>> THEN <<>>
    ELSE IF Head(rows).username \in seen THEN GroupOrder(Tail(rows), seen)
    ELSE <<Head(rows).username>> \o
         GroupOrder(Tail(rows), seen \cup {Head(rows).username})

\* sorted_connections[-excess_count:]
LastN(s, n) == SubSeq(s, Len(s) - n + 1, Len(s))

\* the same number of sessions taken from the front: the oldest ones
ConnectionsToDisconnect_Oldest(connections, max_connections) ==
    SubSeq(SortById(connections), 1, Cardinality(connections) - max_connections)

\* lines 245-251: sorted(connections, key=id)[-excess_count:]
ConnectionsToDisconnect(connections, max_connections) ==
    LastN(SortById(connections), Cardinality(connections) - max_connections)

\* lines 253-265: disconnect each selected session, ban its address on success
RECURSIVE DisconnectNewest(_, _, _, _, _)
DisconnectNewest(conns, username, st, ok_ids, write_ok_ids) ==
    IF conns = <<>> THEN st
    ELSE LET conn == Head(conns)
             s1 == disconnect_by_id(st, conn.id, conn.id \in ok_ids)
             s2 == IF conn.id \in ok_ids /\ conn.client_ip # NoIp
                   THEN temp_block_ip(s1, conn.client_ip, username, BanSeconds,
                                      conn.id \in write_ok_ids)
                   ELSE s1
         IN DisconnectNewest(Tail(conns), username, s2, ok_ids, write_ok_ids)

\* the loop banning the address of every session it kills
RECURSIVE KillStuck_Ban(_, _, _)
KillStuck_Ban(conns, st, ok_ids) ==
    IF conns = <<>> THEN st
    ELSE LET conn == Head(conns)
             s1 == IF now - conn.connected_at > GraceSeconds * Ms
                   THEN disconnect_by_id(st, conn.id, conn.id \in ok_ids)
                   ELSE st
             s2 == IF conn.id \in s1.disconnected
                   THEN temp_block_ip(s1, conn.client_ip, NONE, BanSeconds, TRUE)
                   ELSE s1
         IN KillStuck_Ban(Tail(conns), s2, ok_ids)

\* the loop killing a session as soon as the grace window is reached
RECURSIVE KillStuck_Inclusive(_, _, _)
KillStuck_Inclusive(conns, st, ok_ids) ==
    IF conns = <<>> THEN st
    ELSE LET conn == Head(conns)
             s1 == IF now - conn.connected_at >= GraceSeconds * Ms
                   THEN disconnect_by_id(st, conn.id, conn.id \in ok_ids)
                   ELSE st
         IN KillStuck_Inclusive(Tail(conns), s1, ok_ids)

\* lines 211-228: sessions still "(none)" after the grace window are killed
RECURSIVE KillStuck(_, _, _)
KillStuck(conns, st, ok_ids) ==
    IF conns = <<>> THEN st
    ELSE LET conn == Head(conns)
             s1 == IF /\ conn.connected_at # NoDate
                      /\ now - conn.connected_at > GraceSeconds * Ms
                   THEN disconnect_by_id(st, conn.id, conn.id \in ok_ids)
                   ELSE st
         IN KillStuck(Tail(conns), s1, ok_ids)

\* lines 209-270: the loop over the groups
RECURSIVE LimitLoop(_, _, _, _, _)
LimitLoop(names, rows, st, ok_ids, write_ok_ids) ==
    IF names = <<>> THEN st
    ELSE LET username == Head(names)
             connections == {rows[i] : i \in {j \in 1..Len(rows) :
                                                rows[j].username = username}}
             s1 == IF username = NONE
                   THEN KillStuck(SortById(connections), st, ok_ids)
                   ELSE IF username \in Users /\
                           Cardinality(connections) > users[username].max_connections
                   THEN DisconnectNewest(
                            ConnectionsToDisconnect(connections,
                                                    users[username].max_connections),
                            username, st, ok_ids, write_ok_ids)
                   ELSE st
         IN LimitLoop(Tail(names), rows, s1, ok_ids, write_ok_ids)

\* the adapter answers: which of the disconnects issued for these rows succeed,
\* and which of the bans that follow can append to BLOCKED_FILE
LimitState ==
    [online |-> online, blocked_ips |-> blocked_ips,
     blocked_file |-> blocked_file, timers |-> timers,
     disconnect_by_id |-> {}, disconnected |-> {}, write_failed |-> {}]

Issued(rows) ==
    LimitLoop(GroupOrder(rows, {}), rows, LimitState, {}, {}).disconnect_by_id

Cost(ok) == IF ok THEN 0 ELSE 1

CheckConnectionLimits ==
    \E poll_ok \in BOOLEAN :
    \E ok_ids \in SUBSET Issued(get_online_users(poll_ok)) :
    \E write_ok_ids \in SUBSET {c.id : c \in {d \in online : d.id \in ok_ids /\
                                                          d.username # NONE}} :
        LET rows == get_online_users(poll_ok)
            st == LimitLoop(GroupOrder(rows, {}), rows, LimitState, ok_ids,
                            write_ok_ids)
            failed == Cost(poll_ok)
                      + Cardinality(st.disconnect_by_id \ ok_ids)
                      + Cardinality(st.write_failed)
        IN /\ Free("limit", running)
           /\ failed <= faults
           /\ faults' = faults - failed
           /\ online' = st.online
           /\ blocked_ips' = st.blocked_ips
           /\ blocked_file' = st.blocked_file
           /\ timers' = st.timers
           /\ tick' = [NoTick(users) EXCEPT
                         !.task = "limit",
                         !.rows = {rows[i] : i \in 1..Len(rows)},
                         !.live = Live(online),
                         !.disconnect_by_id = st.disconnect_by_id,
                         !.disconnected = st.disconnected,
                         !.write_failed = st.write_failed]
           /\ spared' = Spared("limit",
                               {c.username : c \in {d \in online :
                                    d.id \in st.disconnect_by_id}},
                               users, st.online)
           /\ counters' = DaemonCounters(st.online)
           /\ UNCHANGED <<running, tracked, now, users, next_id, locked, last_traffic, budget>>

\* check_connection_limits when the sessions are on the remote server
CheckConnectionLimitsRemote ==
    \E ok_ids \in SUBSET Issued(remote_get_online_users) :
    \E write_ok_ids \in SUBSET {c.id : c \in {d \in online : d.id \in ok_ids /\
                                                          d.username # NONE}} :
        LET rows == remote_get_online_users
            st == LimitLoop(GroupOrder(rows, {}), rows, LimitState, ok_ids,
                            write_ok_ids)
            failed == Cardinality(st.disconnect_by_id \ ok_ids)
                      + Cardinality(st.write_failed)
        IN /\ Free("limit", running)
           /\ rows # <<>>
           /\ failed <= faults
           /\ faults' = faults - failed
           /\ online' = st.online
           /\ blocked_ips' = st.blocked_ips
           /\ blocked_file' = st.blocked_file
           /\ timers' = st.timers
           /\ tick' = [NoTick(users) EXCEPT
                         !.task = "limit",
                         !.rows = {rows[i] : i \in 1..Len(rows)},
                         !.live = Live(online),
                         !.disconnect_by_id = st.disconnect_by_id,
                         !.disconnected = st.disconnected,
                         !.write_failed = st.write_failed]
           /\ spared' = Spared("limit",
                               {c.username : c \in {d \in online :
                                    d.id \in st.disconnect_by_id}},
                               users, st.online)
           /\ counters' = DaemonCounters(st.online)
           /\ UNCHANGED <<running, tracked, now, users, next_id, locked,
                          last_traffic, budget>>

\* the sequence without its i-th element
RemoveAt(s, i) == SubSeq(s, 1, i - 1) \o SubSeq(s, i + 1, Len(s))

\* the index of the first line of the file that holds the address, 0 if none
FirstLine(file, ip) ==
    IF \E i \in 1..Len(file) : file[i] = ip
    THEN CHOOSE i \in 1..Len(file) :
            file[i] = ip /\ \A j \in 1..(i - 1) : file[j] # ip
    ELSE 0

\* unblock_ip dropping one line of the file instead of every line that holds
\* the address
unblock_ip_OneLine(file, b, ip, io_ok) ==
    IF io_ok
    THEN [blocked_file |-> IF FirstLine(file, ip) = 0
                           THEN file
                           ELSE SubSeq(file, 1, FirstLine(file, ip) - 1)
                                \o SubSeq(file, FirstLine(file, ip) + 1, Len(file)),
          blocked_ips |-> [b EXCEPT ![ip] = NoBlock],
          ok |-> TRUE]
    ELSE [blocked_file |-> file, blocked_ips |-> b, ok |-> FALSE]

\* unblock_ip, lines 82-109: rewrite BLOCKED_FILE without the address, then drop
\* the record; when the file cannot be read or rewritten the except clause
\* returns False and nothing is removed
unblock_ip(file, b, ip, io_ok) ==
    IF io_ok
    THEN [blocked_file |-> SelectSeq(file, LAMBDA line : line # ip),
          blocked_ips |-> [b EXCEPT ![ip] = NoBlock],
          ok |-> TRUE]
    ELSE [blocked_file |-> file, blocked_ips |-> b, ok |-> FALSE]

\* what a call of unblock_ip leaves in `tick`
UnblockTick(ip, ok) ==
    [NoTick(users) EXCEPT !.task = "unblock", !.ip = ip, !.ok = ok,
                          !.again = /\ tick.task = "unblock"
                                    /\ tick.ip = ip
                                    /\ tick.ok,
                          !.pre_blocked_ips = blocked_ips,
                          !.pre_blocked_file = blocked_file]

\* _unblock_ip_later: asyncio.sleep(seconds), then unblock_ip(ip); the result
\* is dropped and the task ends
UnblockIpLater ==
    \E i \in 1..Len(timers), io_ok \in BOOLEAN :
        /\ timers[i].at <= now
        /\ Cost(io_ok) <= faults
        /\ faults' = faults - Cost(io_ok)
        /\ LET r == unblock_ip(blocked_file, blocked_ips, timers[i].ip, io_ok)
           IN /\ blocked_file' = r.blocked_file
              /\ blocked_ips' = r.blocked_ips
              /\ tick' = UnblockTick(timers[i].ip, r.ok)
        /\ timers' = RemoveAt(timers, i)
        /\ spared' = Spared("none", {}, users, online)
        /\ UNCHANGED <<running, tracked, now, users, online, next_id, counters, locked,
                       last_traffic, budget>>

\* get_blocked_ips, lines 111-132: the scan returns the entries still in the
\* future and drops the expired ones (a scan of an empty dict returns nothing
\* and changes nothing)
GetBlockedIps ==
    /\ \E ip \in IPs : blocked_ips[ip] # NoBlock
    /\ blocked_ips' = [ip \in IPs |->
                          IF blocked_ips[ip] # NoBlock /\
                             blocked_ips[ip].unblock_time > now
                          THEN blocked_ips[ip] ELSE NoBlock]
    /\ tick' = [NoTick(users) EXCEPT !.task = "list",
                    !.returned = get_blocked_ips(blocked_ips, now),
                    !.pre_blocked_ips = blocked_ips,
                    !.pre_blocked_file = blocked_file]
    /\ spared' = Spared("none", {}, users, online)
    /\ UNCHANGED <<running, tracked, faults, now, users, online, next_id, counters, locked, last_traffic,
                   blocked_file, timers, budget>>

\* one call of _temp_block_ip with the limiter's duration
TempBlockIp(ip, username) ==
    \E write_ok \in BOOLEAN :
        LET st == temp_block_ip(LimitState, ip, username, BanSeconds, write_ok)
        IN /\ budget > 0
           /\ budget' = budget - 1
           /\ Cost(write_ok) <= faults
           /\ faults' = faults - Cost(write_ok)
           /\ blocked_ips' = st.blocked_ips
           /\ blocked_file' = st.blocked_file
           /\ timers' = st.timers
           /\ tick' = [NoTick(users) EXCEPT
                         !.task = "ban", !.ip = ip, !.ok = write_ok,
                         !.write_failed = st.write_failed,
                         !.pre_blocked_ips = blocked_ips,
                         !.pre_blocked_file = blocked_file]
           /\ spared' = Spared("none", {}, users, online)
           /\ UNCHANGED <<running, tracked, now, users, online, next_id, counters, locked,
                          last_traffic>>

\* one call of unblock_ip that is not the scheduled one
UnblockIp(ip) ==
    \E io_ok \in BOOLEAN :
        LET r == unblock_ip(blocked_file, blocked_ips, ip, io_ok)
        IN /\ budget > 0
           /\ budget' = budget - 1
           /\ Cost(io_ok) <= faults
           /\ faults' = faults - Cost(io_ok)
           /\ blocked_file' = r.blocked_file
           /\ blocked_ips' = r.blocked_ips
           /\ tick' = UnblockTick(ip, r.ok)
           /\ spared' = Spared("none", {}, users, online)
           /\ UNCHANGED <<running, tracked, now, users, online, next_id, counters, locked,
                          last_traffic, timers>>

-----------------------------------------------------------------------------
(* services/traffic.py: update_user_traffic *)

\* line 53: self._last_traffic.get(username, {'rx': 0, 'tx': 0})
LastOrDefault(entry) == IF entry = NoEntry THEN [rx |-> 0, tx |-> 0] ELSE entry

\* the difference of the totals, without the two max(0, ...)
DeltaTotal_Unclamped(traffic, last) ==
    (traffic.rx - last.rx) + (traffic.tx - last.tx)

\* lines 54-56
DeltaTotal(traffic, last) ==
    Max(0, traffic.rx - last.rx) + Max(0, traffic.tx - last.tx)

\* used_traffic set to the delta instead of increased by it
CreditAndEnforce_Overwrite(st, username, delta_total, disc_ok, lock_ok) ==
    IF delta_total > 0
    THEN LET s1 == [st EXCEPT !.users[username].used_traffic = delta_total,
                              !.users[username].is_online = TRUE,
                              !.users[username].current_connections = 1]
             user == s1.users[username]
         IN IF user.max_traffic > 0 /\ user.used_traffic >= user.max_traffic
            THEN LET s2 == disconnect_user(s1, username, username \in disc_ok)
                     s3 == lock_user(s2, username, username \in lock_ok)
                 IN [s3 EXCEPT !.users[username].is_active = FALSE,
                               !.users[username].is_online = FALSE,
                               !.users[username].current_connections = 0]
            ELSE s1
    ELSE st

\* the cap compared with used_traffic as it was before the delta is added
CreditAndEnforce_CapBeforeCredit(st, username, delta_total, disc_ok, lock_ok) ==
    IF delta_total > 0
    THEN LET s1 == [st EXCEPT !.users[username].used_traffic = @ + delta_total,
                              !.users[username].is_online = TRUE,
                              !.users[username].current_connections = 1]
             user == st.users[username]
         IN IF user.max_traffic > 0 /\ user.used_traffic >= user.max_traffic
            THEN LET s2 == disconnect_user(s1, username, username \in disc_ok)
                     s3 == lock_user(s2, username, username \in lock_ok)
                 IN [s3 EXCEPT !.users[username].is_active = FALSE,
                               !.users[username].is_online = FALSE,
                               !.users[username].current_connections = 0]
            ELSE s1
    ELSE st

\* an account that moves bytes is marked active again as well as online
CreditAndEnforce_Reactivate(st, username, delta_total, disc_ok, lock_ok) ==
    IF delta_total > 0
    THEN LET s1 == [st EXCEPT !.users[username].used_traffic = @ + delta_total,
                              !.users[username].is_active = TRUE,
                              !.users[username].is_online = TRUE,
                              !.users[username].current_connections = 1]
             user == s1.users[username]
         IN IF user.max_traffic > 0 /\ user.used_traffic >= user.max_traffic
            THEN LET s2 == disconnect_user(s1, username, username \in disc_ok)
                     s3 == lock_user(s2, username, username \in lock_ok)
                 IN [s3 EXCEPT !.users[username].is_active = FALSE,
                               !.users[username].is_online = FALSE,
                               !.users[username].current_connections = 0]
            ELSE s1
    ELSE st

\* lines 58-76: credit the delta, then enforce the cap at once
CreditAndEnforce(st, username, delta_total, disc_ok, lock_ok) ==
    IF delta_total > 0
    THEN LET s1 == [st EXCEPT !.users[username].used_traffic = @ + delta_total,
                              !.users[username].is_online = TRUE,
                              !.users[username].current_connections = 1]
             user == s1.users[username]
         IN IF user.max_traffic > 0 /\ user.used_traffic >= user.max_traffic
            THEN LET s2 == disconnect_user(s1, username, username \in disc_ok)
                     s3 == lock_user(s2, username, username \in lock_ok)
                 IN [s3 EXCEPT !.users[username].is_active = FALSE,
                               !.users[username].is_online = FALSE,
                               !.users[username].current_connections = 0]
            ELSE s1
    ELSE st

\* the loop taking every row's delta against the snapshot the task started with
RECURSIVE TrafficLoop_PerSession(_, _, _, _)
TrafficLoop_PerSession(rows, st, disc_ok, lock_ok) ==
    IF rows = <<>> THEN st
    ELSE LET username == Head(rows).username
         IN IF username \notin Users
            THEN TrafficLoop_PerSession(Tail(rows), st, disc_ok, lock_ok)
            ELSE LET traffic == get_user_traffic(st.online, username)
                     last == LastOrDefault(last_traffic[username])
                     delta_total == DeltaTotal(traffic, last)
                     s1 == CreditAndEnforce(st, username, delta_total,
                                            disc_ok, lock_ok)
                     s2 == [s1 EXCEPT
                              !.last_traffic[username] = traffic,
                              !.delta[username] = @ + delta_total,
                              !.obs = Append(@,
                                  [username |-> username,
                                   seen |-> last_traffic[username] # NoEntry,
                                   last |-> last,
                                   traffic |-> traffic,
                                   delta |-> delta_total])]
                 IN TrafficLoop_PerSession(Tail(rows), s2, disc_ok, lock_ok)

\* lines 35-79: one pass of the loop per row of the poll
RECURSIVE TrafficLoop(_, _, _, _)
TrafficLoop(rows, st, disc_ok, lock_ok) ==
    IF rows = <<>> THEN st
    ELSE LET username == Head(rows).username
         IN IF username \notin Users
            THEN TrafficLoop(Tail(rows), st, disc_ok, lock_ok)
            ELSE LET traffic == get_user_traffic(st.online, username)
                     last == LastOrDefault(st.last_traffic[username])
                     delta_total == DeltaTotal(traffic, last)
                     s1 == CreditAndEnforce(st, username, delta_total,
                                            disc_ok, lock_ok)
                     s2 == [s1 EXCEPT
                              !.last_traffic[username] = traffic,
                              !.delta[username] = @ + delta_total,
                              !.obs = Append(@,
                                  [username |-> username,
                                   seen |-> st.last_traffic[username] # NoEntry,
                                   last |-> last,
                                   traffic |-> traffic,
                                   delta |-> delta_total])]
                 IN TrafficLoop(Tail(rows), s2, disc_ok, lock_ok)

\* lines 82-89: UPDATE users SET is_online = 0, current_connections = 0
\* WHERE is_online AND username NOT IN (the poll), every online user when the
\* poll is empty
MarkOffline(table, online_usernames) ==
    [u \in Users |->
        IF table[u].is_online /\ u \notin online_usernames
        THEN [table[u] EXCEPT !.is_online = FALSE, !.current_connections = 0]
        ELSE table[u]]

\* the snapshot map kept whole
Evict_KeepAll(snapshot, online_usernames) ==
    snapshot

\* lines 92-95
Evict(snapshot, online_usernames) ==
    [u \in Users |-> IF u \in online_usernames THEN snapshot[u] ELSE NoEntry]

\* tracked after the observations of one task: the reading that created the
\* snapshot entry, the deltas computed since, and whether no counter went back
RECURSIVE Track(_, _)
Track(tr, obs) ==
    IF obs = <<>> THEN tr
    ELSE LET o == Head(obs)
             t == tr[o.username]
         IN Track([tr EXCEPT ![o.username] =
                     IF o.seen
                     THEN [t EXCEPT !.credited = @ + o.delta,
                                    !.monotone = @ /\ o.traffic.rx >= o.last.rx
                                                   /\ o.traffic.tx >= o.last.tx]
                     ELSE [first |-> o.traffic, credited |-> o.delta,
                           monotone |-> TRUE]],
                  Tail(obs))

EvictTracked(tr, online_usernames) ==
    [u \in Users |-> IF u \in online_usernames THEN tr[u] ELSE NoTrack]

TaskState ==
    [users |-> users, last_traffic |-> last_traffic, online |-> online,
     locked |-> locked, disconnect_user |-> NoCalls, lock_user |-> NoCalls,
     unlock_user |-> NoCalls, delta |-> NoCalls, obs |-> <<>>,
     reason |-> [u \in Users |-> ""]]

\* the users a task calls disconnect_user for, whatever the adapter answers
Called(st) == {u \in Users : st.disconnect_user[u] > 0}

\* a commit that, when it fails, leaves the first account's pending row behind
Commit_HalfUpdated(pre, pending, commit_ok) ==
    IF commit_ok THEN pending
    ELSE [u \in Users |-> IF u = "alice" THEN pending[u] ELSE pre[u]]

\* traffic.py lines 97-101, quota.py lines 184-188: session.commit() persists
\* every pending row; when it raises, session.rollback() discards them all
Commit(pre, pending, commit_ok) ==
    IF commit_ok THEN pending ELSE pre

UpdateUserTraffic ==
    \E poll_ok \in BOOLEAN, commit_ok \in BOOLEAN :
    \E disc_ok \in SUBSET Called(TrafficLoop(get_online_users(poll_ok),
                                            TaskState, {}, {})) :
    \E lock_ok \in SUBSET Called(TrafficLoop(get_online_users(poll_ok),
                                            TaskState, {}, {})) :
        LET rows == get_online_users(poll_ok)
            online_usernames == {rows[i].username : i \in 1..Len(rows)}
            st == TrafficLoop(rows, TaskState, disc_ok, lock_ok)
        IN /\ Free("traffic", running)
           /\ users' = Commit(users, MarkOffline(st.users, online_usernames),
                              commit_ok)
           /\ last_traffic' = Evict(st.last_traffic, online_usernames)
           /\ online' = st.online
           /\ locked' = st.locked
           /\ counters' = DaemonCounters(st.online)
           /\ Cost(poll_ok) + Cost(commit_ok)
                + Cardinality(Called(st) \ disc_ok)
                + Cardinality(Called(st) \ lock_ok) <= faults
           /\ faults' = faults - (Cost(poll_ok) + Cost(commit_ok)
                                  + Cardinality(Called(st) \ disc_ok)
                                  + Cardinality(Called(st) \ lock_ok))
           /\ tick' = [NoTick(users) EXCEPT
                         !.task = "traffic",
                         !.raised = ~commit_ok,
                         !.escaped = ~commit_ok /\ Except("traffic").escaped,
                         !.rows = {rows[i] : i \in 1..Len(rows)},
                         !.live = Live(online),
                         !.committed = commit_ok,
                         !.disconnect_user = st.disconnect_user,
                         !.lock_user = st.lock_user,
                         !.delta = st.delta,
                         !.obs = st.obs]
           /\ spared' = Spared("traffic", Called(st), users', st.online)
           /\ tracked' = EvictTracked(Track(tracked, st.obs), online_usernames)
           /\ UNCHANGED <<running, now, next_id, blocked_ips, blocked_file, timers, budget>>

-----------------------------------------------------------------------------
(* services/quota.py: check_quotas *)

\* the order in which the users table is read
UserOrder == <<"alice", "bob">>

\* lines 150-156: the scheduled reset
ScheduledReset(st, username, unlock_ok) ==
    IF needs_traffic_reset(st.users[username], now)
    THEN LET s1 == [st EXCEPT !.users[username] = reset_traffic(@, now)]
         IN IF ~s1.users[username].is_active
            THEN unlock_user([s1 EXCEPT !.users[username].is_active = TRUE],
                             username, username \in unlock_ok)
            ELSE s1
    ELSE st

\* lines 161-176: traffic quota first, expiry date second
Enforce(st, username) ==
    IF is_traffic_exceeded(st.users[username])
    THEN [st EXCEPT !.users[username].is_active = FALSE,
                    !.reason[username] = "traffic_exceeded"]
    ELSE IF is_expired(st.users[username], now)
    THEN [st EXCEPT !.users[username].is_active = FALSE,
                    !.reason[username] = "expired"]
    ELSE st

\* lines 179-182
DisconnectIfNeeded(st, username, disc_ok, lock_ok) ==
    IF st.reason[username] # "" /\ st.users[username].is_online
    THEN lock_user(disconnect_user(st, username, username \in disc_ok),
                   username, username \in lock_ok)
    ELSE st

\* lines 139-142: select(User).where(User.is_active == True)
ActiveUsers == SelectSeq(UserOrder, LAMBDA u : users[u].is_active)

\* the loop leaving at the first account whose disconnect fails
RECURSIVE QuotaLoop_AbortOnFailure(_, _, _, _, _)
QuotaLoop_AbortOnFailure(names, st, disc_ok, lock_ok, unlock_ok) ==
    IF names = <<>> THEN st
    ELSE LET s1 == ScheduledReset(st, Head(names), unlock_ok)
             s2 == Enforce(s1, Head(names))
         IN IF s2.reason[Head(names)] # "" /\ s2.users[Head(names)].is_online
               /\ Head(names) \notin disc_ok
            THEN disconnect_user(s2, Head(names), FALSE)
            ELSE QuotaLoop_AbortOnFailure(Tail(names),
                    DisconnectIfNeeded(s2, Head(names), disc_ok, lock_ok),
                    disc_ok, lock_ok, unlock_ok)

\* the loop with the limits checked before the scheduled reset
RECURSIVE QuotaLoop_EnforceFirst(_, _, _, _, _)
QuotaLoop_EnforceFirst(names, st, disc_ok, lock_ok, unlock_ok) ==
    IF names = <<>> THEN st
    ELSE LET s1 == Enforce(st, Head(names))
             s2 == DisconnectIfNeeded(s1, Head(names), disc_ok, lock_ok)
             s3 == ScheduledReset(s2, Head(names), unlock_ok)
         IN QuotaLoop_EnforceFirst(Tail(names), s3, disc_ok, lock_ok, unlock_ok)

\* lines 146-182
RECURSIVE QuotaLoop(_, _, _, _, _)
QuotaLoop(names, st, disc_ok, lock_ok, unlock_ok) ==
    IF names = <<>> THEN st
    ELSE LET s1 == ScheduledReset(st, Head(names), unlock_ok)
             s2 == Enforce(s1, Head(names))
             s3 == DisconnectIfNeeded(s2, Head(names), disc_ok, lock_ok)
         IN QuotaLoop(Tail(names), s3, disc_ok, lock_ok, unlock_ok)

CheckQuotas ==
    \E commit_ok \in BOOLEAN :
    \E disc_ok \in SUBSET Called(QuotaLoop(ActiveUsers, TaskState, {}, {}, {})) :
    \E lock_ok \in SUBSET Called(QuotaLoop(ActiveUsers, TaskState, {}, {}, {})) :
    \E unlock_ok \in SUBSET {u \in Users :
            QuotaLoop(ActiveUsers, TaskState, {}, {}, {}).unlock_user[u] > 0} :
        LET st == QuotaLoop(ActiveUsers, TaskState, disc_ok, lock_ok, unlock_ok)
        IN /\ Free("quota", running)
           /\ users' = Commit(users, st.users, commit_ok)
           /\ online' = st.online
           /\ locked' = st.locked
           /\ counters' = DaemonCounters(st.online)
           /\ Cost(commit_ok)
                + Cardinality(Called(st) \ disc_ok)
                + Cardinality(Called(st) \ lock_ok)
                + Cardinality({u \in Users : st.unlock_user[u] > 0} \ unlock_ok)
                    <= faults
           /\ faults' = faults - (Cost(commit_ok)
                + Cardinality(Called(st) \ disc_ok)
                + Cardinality(Called(st) \ lock_ok)
                + Cardinality({u \in Users : st.unlock_user[u] > 0} \ unlock_ok))
           /\ tick' = [NoTick(users) EXCEPT
                         !.task = "quota",
                         !.raised = ~commit_ok,
                         !.escaped = ~commit_ok /\ Except("quota").escaped,
                         !.live = Live(online),
                         !.committed = commit_ok,
                         !.disconnect_user = st.disconnect_user,
                         !.lock_user = st.lock_user,
                         !.unlock_user = st.unlock_user,
                         !.reason = st.reason]
           /\ spared' = Spared("quota", Called(st), users', st.online)
           /\ UNCHANGED <<running, tracked, now, next_id, last_traffic, blocked_ips, blocked_file,
                          timers, budget>>

-----------------------------------------------------------------------------
(* The tasks when a query of their session raises *)

\* update_user_traffic when the select of the k-th row raises (lines 39-42):
\* the rows before it have been processed, the except clause rolls back, and
\* lines 82-97 (mark offline, evict, commit) are not reached
UpdateUserTrafficSelectFails ==
    \E k \in 1..Len(get_online_users(TRUE)) :
        LET rows == get_online_users(TRUE)
            st == TrafficLoop(SubSeq(rows, 1, k - 1), TaskState, Users, Users)
        IN /\ Free("traffic", running)
           /\ faults > 0
           /\ faults' = faults - 1
           /\ users' = IF Except("traffic").rollback THEN users ELSE st.users
           /\ last_traffic' = st.last_traffic
           /\ online' = st.online
           /\ locked' = st.locked
           /\ counters' = DaemonCounters(st.online)
           /\ tick' = [NoTick(users) EXCEPT
                         !.task = "traffic",
                         !.raised = TRUE,
                         !.escaped = Except("traffic").escaped,
                         !.rows = {rows[i] : i \in 1..Len(rows)},
                         !.live = Live(online),
                         !.committed = FALSE,
                         !.disconnect_user = st.disconnect_user,
                         !.lock_user = st.lock_user,
                         !.delta = st.delta,
                         !.obs = st.obs]
           /\ spared' = Spared("traffic", Called(st), users', st.online)
           /\ tracked' = Track(tracked, st.obs)
           /\ UNCHANGED <<running, now, next_id, blocked_ips, blocked_file,
                          timers, budget>>

\* check_quotas when the select of the active users raises (lines 139-142):
\* nothing has been read, the except clause rolls back
CheckQuotasSelectFails ==
    /\ Free("quota", running)
    /\ faults > 0
    /\ faults' = faults - 1
    /\ users' = users
    /\ tick' = [NoTick(users) EXCEPT
                  !.task = "quota",
                  !.raised = TRUE,
                  !.escaped = Except("quota").escaped,
                  !.live = Live(online),
                  !.committed = FALSE]
    /\ spared' = Spared("quota", {}, users, online)
    /\ UNCHANGED <<running, tracked, now, online, next_id, counters, locked,
                   last_traffic, blocked_ips, blocked_file, timers, budget>>

\* check_connection_limits when the select of the k-th group's account raises
\* (lines 230-233): the groups before it have been processed, the except
\* clause logs
CheckConnectionLimitsSelectFails ==
    \E k \in 1..Len(GroupOrder(get_online_users(TRUE), {})) :
        LET rows == get_online_users(TRUE)
            names == GroupOrder(rows, {})
            ids == {c.id : c \in online}
            st == LimitLoop(SubSeq(names, 1, k - 1), rows, LimitState, ids, ids)
        IN /\ Free("limit", running)
           /\ names[k] # NONE
           /\ faults > 0
           /\ faults' = faults - 1
           /\ online' = st.online
           /\ blocked_ips' = st.blocked_ips
           /\ blocked_file' = st.blocked_file
           /\ timers' = st.timers
           /\ tick' = [NoTick(users) EXCEPT
                         !.task = "limit",
                         !.raised = TRUE,
                         !.escaped = Except("limit").escaped,
                         !.rows = {rows[i] : i \in 1..Len(rows)},
                         !.live = Live(online),
                         !.disconnect_by_id = st.disconnect_by_id,
                         !.disconnected = st.disconnected,
                         !.write_failed = st.write_failed]
           /\ spared' = Spared("limit",
                               {c.username : c \in {d \in online :
                                    d.id \in st.disconnect_by_id}},
                               users, st.online)
           /\ counters' = DaemonCounters(st.online)
           /\ UNCHANGED <<running, tracked, now, users, next_id, locked,
                          last_traffic, budget>>

-----------------------------------------------------------------------------
(* services/traffic.py: update_user_traffic across a suspension point *)

\* the UPDATE the session emits for a row: the columns whose pending value
\* differs from the value loaded by the select are written, the others keep
\* what the table holds now
Flush(current, loaded, pending) ==
    [f \in DOMAIN current |->
        IF pending[f] # loaded[f] THEN pending[f] ELSE current[f]]

\* lines 33-48: the poll has returned, the first row's account has been
\* selected, and the coroutine awaits get_user_traffic for it
UpdateUserTrafficSuspend ==
    LET rows == get_online_users(TRUE)
    IN /\ Free("traffic", running)
       /\ rows # <<>>
       /\ Head(rows).username \in Users
       /\ running' = [running EXCEPT !["traffic"] =
                        [at |-> "get_user_traffic",
                         rows |-> rows,
                         username |-> Head(rows).username,
                         user |-> users[Head(rows).username]]]
       /\ tick' = NoTick(users)
       /\ spared' = Spared("none", {}, users, online)
       /\ UNCHANGED <<tracked, faults, budget, now, users, online, next_id,
                      counters, locked, last_traffic, blocked_ips, blocked_file,
                      timers>>

\* lines 48-97: get_user_traffic returns and the run goes on to its commit,
\* the first row's account being the object the select loaded before the
\* suspension; the other accounts are selected now
UpdateUserTrafficResume ==
    LET r == running["traffic"]
    IN /\ r # Idle
       /\ r.at = "get_user_traffic"
       /\ LET online_usernames == {r.rows[i].username : i \in 1..Len(r.rows)}
              st == TrafficLoop(r.rows,
                                [TaskState EXCEPT !.users[r.username] = r.user],
                                Users, Users)
              flushed == [st.users EXCEPT ![r.username] =
                            Flush(users[r.username], r.user, @)]
          IN /\ users' = Commit(users, MarkOffline(flushed, online_usernames),
                                TRUE)
             /\ last_traffic' = Evict(st.last_traffic, online_usernames)
             /\ online' = st.online
             /\ locked' = st.locked
             /\ counters' = DaemonCounters(st.online)
             /\ tick' = [NoTick(users) EXCEPT
                           !.task = "traffic",
                           !.rows = {r.rows[i] : i \in 1..Len(r.rows)},
                           !.live = Live(online),
                           !.disconnect_user = st.disconnect_user,
                           !.lock_user = st.lock_user,
                           !.delta = st.delta,
                           !.obs = st.obs]
             /\ spared' = Spared("traffic", Called(st), users', st.online)
             /\ tracked' = EvictTracked(Track(tracked, st.obs), online_usernames)
             /\ running' = [running EXCEPT !["traffic"] = Idle]
       /\ UNCHANGED <<now, next_id, blocked_ips, blocked_file, timers, budget,
                      faults>>

-----------------------------------------------------------------------------
(* services/ocserv.py: an adapter call that never returns *)

\* the task awaits its first adapter call: get_online_users for the traffic
\* task and the connection-limit task, the first unlock_user or
\* disconnect_user for the quota task
FirstCall(task) ==
    IF task = "quota"
    THEN LET st == QuotaLoop(ActiveUsers, TaskState, {}, {}, {})
         IN \E u \in Users : st.unlock_user[u] + st.disconnect_user[u] > 0
    ELSE TRUE

\* _run_command, lines 55-71: process.communicate() is awaited without a
\* timeout, so a child process that never exits leaves the task suspended in
\* the call; nothing the task has done is committed
Hang(task) ==
    /\ Free(task, running)
    /\ FirstCall(task)
    /\ budget > 0
    /\ budget' = budget - 1
    /\ running' = [running EXCEPT ![task] = [at |-> "adapter"]]
    /\ tick' = NoTick(users)
    /\ spared' = Spared("none", {}, users, online)
    /\ UNCHANGED <<tracked, faults, now, users, online, next_id, counters,
                   locked, last_traffic, blocked_ips, blocked_file, timers>>

-----------------------------------------------------------------------------
(* api/users.py *)

\* update_user (PUT /users/{id}) with max_traffic alone
UpdateUser(username, max_traffic) ==
    /\ budget > 0
    /\ budget' = budget - 1
    /\ users[username].max_traffic # max_traffic
    /\ users' = [users EXCEPT ![username].max_traffic = max_traffic]
    /\ tick' = NoTick(users')
    /\ spared' = Spared("none", {}, users', online)
    /\ UNCHANGED <<running, tracked, faults, now, online, next_id, counters, locked, last_traffic,
                   blocked_ips, blocked_file, timers>>

\* reset_quota (POST /users/{id}/reset-quota), lines 326-351: used_traffic = 0,
\* max_traffic = new_traffic, is_active = True, unlock_user, commit
ResetQuota(username, new_traffic) ==
    \E unlock_ok \in BOOLEAN, commit_ok \in BOOLEAN :
        LET st == unlock_user(TaskState, username, unlock_ok)
        IN /\ budget > 0
           /\ budget' = budget - 1
           /\ Cost(unlock_ok) + Cost(commit_ok) <= faults
           /\ faults' = faults - (Cost(unlock_ok) + Cost(commit_ok))
           /\ users' = IF commit_ok
                       THEN [users EXCEPT ![username].used_traffic = 0,
                                          ![username].max_traffic = new_traffic,
                                          ![username].is_active = TRUE]
                       ELSE users
           /\ locked' = st.locked
           /\ tick' = [NoTick(users) EXCEPT
                         !.task = "reset_quota",
                         !.committed = commit_ok,
                         !.unlock_user = st.unlock_user,
                         !.reason[username] = "reset_quota"]
           /\ spared' = Spared("none", {}, users', online)
           /\ UNCHANGED <<running, tracked, now, online, next_id, counters, last_traffic,
                          blocked_ips, blocked_file, timers>>

-----------------------------------------------------------------------------
(* The environment: the VPN daemon and the clock *)

\* a client connects: the daemon assigns the next id; a row shows the connection
\* time to the second
Connect(username, ip) ==
    /\ next_id <= MaxSessions
    /\ budget > 0
    /\ budget' = budget - 1
    /\ username \notin locked
    /\ online' = online \cup {[id |-> next_id, username |-> username,
                                client_ip |-> ip,
                                connected_at |-> (now \div Ms) * Ms]}
    /\ next_id' = next_id + 1
    /\ tick' = NoTick(users)
    /\ spared' = Spared("none", {}, users, online')
    /\ UNCHANGED <<running, tracked, faults, now, users, counters, locked, last_traffic, blocked_ips,
                   blocked_file, timers>>

\* a client leaves on its own
Leave(id) ==
    /\ \E c \in online : c.id = id
    /\ online' = {c \in online : c.id # id}
    /\ counters' = DaemonCounters(online')
    /\ tick' = NoTick(users)
    /\ spared' = Spared("none", {}, users, online')
    /\ UNCHANGED <<running, tracked, faults, now, users, next_id, locked, last_traffic,
                   blocked_ips, blocked_file, timers, budget>>

\* the counters of a connected user move (a drop is a counter reset)
Traffic(username, reading) ==
    /\ budget > 0
    /\ budget' = budget - 1
    /\ username \in Live(online)
    /\ reading # counters[username]
    /\ counters' = [counters EXCEPT ![username] = reading]
    /\ tick' = NoTick(users)
    /\ spared' = Spared("none", {}, users, online)
    /\ UNCHANGED <<running, tracked, faults, now, users, online, next_id, locked, last_traffic,
                   blocked_ips, blocked_file, timers>>

Advance(d) ==
    /\ budget > 0
    /\ budget' = budget - 1
    /\ now' = now + d
    /\ tick' = NoTick(users)
    /\ spared' = Spared("none", {}, users, online)
    /\ UNCHANGED <<running, tracked, faults, users, online, next_id, counters, locked, last_traffic,
                   blocked_ips, blocked_file, timers>>

-----------------------------------------------------------------------------
(* The connection-limit task and the ban manager *)

LimitSteps == {GraceSeconds * Ms, BanSeconds * Ms - 1, BanSeconds * Ms}

InitLimit ==
    /\ now = 0
    /\ users \in [Users -> {NewUser(0, NoDate, m) : m \in 1..DefaultMaxConnections}]
    /\ online = {}
    /\ next_id = 1
    /\ counters = [u \in Users |-> [rx |-> 0, tx |-> 0]]
    /\ locked = {}
    /\ last_traffic = [u \in Users |-> NoEntry]
    /\ blocked_ips = [ip \in IPs |-> NoBlock]
    /\ blocked_file = <<>>
    /\ timers = <<>>
    /\ tick = NoTick(users)
    /\ tracked = [u \in Users |-> NoTrack]
    /\ spared = [u \in Users |-> {}]
    /\ budget = MaxEvents
    /\ faults = MaxFaults
    /\ running = [t \in TaskNames |-> Idle]

NextLimit ==
    \/ CheckConnectionLimits
    \/ UnblockIpLater
    \/ GetBlockedIps
    \/ \E username \in Users \cup {NONE}, ip \in IPs : Connect(username, ip)
    \/ \E d \in LimitSteps : Advance(d)

SpecLimit == InitLimit /\ [][NextLimit]_vars

\* the connection-limit task with the sync enabled
NextRemote ==
    \/ CheckConnectionLimitsRemote
    \/ \E username \in Users \cup {NONE}, ip \in IPs : Connect(username, ip)
    \/ \E d \in LimitSteps : Advance(d)

SpecRemote == InitLimit /\ [][NextRemote]_vars

-----------------------------------------------------------------------------
(* The ban manager alone, driven through its methods *)

InitBan ==
    /\ InitLimit
    /\ \A u \in Users : users[u].max_connections = DefaultMaxConnections

NextBan ==
    \/ \E ip \in IPs : TempBlockIp(ip, "alice")
    \/ \E ip \in IPs : UnblockIp(ip)
    \/ UnblockIpLater
    \/ GetBlockedIps
    \/ \E d \in LimitSteps : Advance(d)

SpecBan == InitBan /\ [][NextBan]_vars

\* the event loop runs a task whose sleep is over
SpecBanFair == SpecBan /\ WF_vars(UnblockIpLater)

-----------------------------------------------------------------------------
(* The traffic task and the quota task *)

TrafficCaps == {0, 2}
PlanDays == 1
Readings == [rx : 0..MaxCounter, tx : 0..MaxCounter]
QuotaSteps == {DaySeconds * Ms - 1, DaySeconds * Ms}

\* apply_plan at time 0: a plan with a cap, a reset period and a duration
apply_plan(u, traffic_limit, days) ==
    [u EXCEPT !.max_traffic = traffic_limit,
              !.reset_period_days = days,
              !.expire_date = 2 * days * DaySeconds * Ms,
              !.used_traffic = 0,
              !.last_reset_date = 0,
              !.is_active = TRUE]

Accounts ==
    {NewUser(m, e, DefaultMaxConnections) :
        m \in TrafficCaps, e \in {NoDate, DaySeconds * Ms}}
    \cup {apply_plan(NewUser(0, NoDate, DefaultMaxConnections), m, PlanDays) :
            m \in TrafficCaps}

\* the accounts whose policy varies and who connect; the others are default
\* accounts that stay offline
QuotaClients == {"alice"}

InitQuota ==
    /\ now = 0
    /\ users \in {[u \in Users |-> IF u \in QuotaClients THEN a
                    ELSE NewUser(0, NoDate, DefaultMaxConnections)] : a \in Accounts}
    /\ online = {}
    /\ next_id = 1
    /\ counters = [u \in Users |-> [rx |-> 0, tx |-> 0]]
    /\ locked = {}
    /\ last_traffic = [u \in Users |-> NoEntry]
    /\ blocked_ips = [ip \in IPs |-> NoBlock]
    /\ blocked_file = <<>>
    /\ timers = <<>>
    /\ tick = NoTick(users)
    /\ tracked = [u \in Users |-> NoTrack]
    /\ spared = [u \in Users |-> {}]
    /\ budget = MaxEvents
    /\ faults = MaxFaults
    /\ running = [t \in TaskNames |-> Idle]

NextQuota ==
    \/ UpdateUserTraffic
    \/ CheckQuotas
    \/ CheckConnectionLimits
    \/ \E username \in QuotaClients, m \in TrafficCaps : UpdateUser(username, m)
    \/ \E username \in QuotaClients : Connect(username, "10.0.0.1")
    \/ \E id \in 1..MaxSessions : Leave(id)
    \/ \E username \in QuotaClients, reading \in Readings :
            Traffic(username, reading)
    \/ \E d \in QuotaSteps : Advance(d)

SpecQuota == InitQuota /\ [][NextQuota]_vars

-----------------------------------------------------------------------------
(* The account store under the two tasks that write it and the manual reset *)

\* both accounts have the same profile and both connect
InitStore ==
    /\ now = 0
    /\ users \in {[u \in Users |-> a] : a \in Accounts}
    /\ online = {}
    /\ next_id = 1
    /\ counters = [u \in Users |-> [rx |-> 0, tx |-> 0]]
    /\ locked = {}
    /\ last_traffic = [u \in Users |-> NoEntry]
    /\ blocked_ips = [ip \in IPs |-> NoBlock]
    /\ blocked_file = <<>>
    /\ timers = <<>>
    /\ tick = NoTick(users)
    /\ tracked = [u \in Users |-> NoTrack]
    /\ spared = [u \in Users |-> {}]
    /\ budget = MaxEvents
    /\ faults = MaxFaults
    /\ running = [t \in TaskNames |-> Idle]

\* alice is the account whose counters move and that the operator resets
NextStore ==
    \/ UpdateUserTraffic
    \/ CheckQuotas
    \/ \E username \in QuotaClients, m \in TrafficCaps : ResetQuota(username, m)
    \/ \E username \in Users : Connect(username, "10.0.0.1")
    \/ \E username \in QuotaClients, reading \in Readings :
            Traffic(username, reading)
    \/ \E d \in QuotaSteps : Advance(d)

SpecStore == InitStore /\ [][NextStore]_vars

-----------------------------------------------------------------------------
(* The three periodic tasks over accounts that are already online *)

\* an account after its first credited observation: one session, the counters
\* at Seen.reading, a traffic task that found the delta and committed
FirstReading == [rx |-> 1, tx |-> 0]

Seen(u) ==
    [u EXCEPT !.used_traffic = FirstReading.rx + FirstReading.tx,
              !.is_online = TRUE,
              !.current_connections = 1]

\* the state after two connections and one traffic task: either alice and bob
\* hold one session each, or alice holds both and bob has never connected
InitEnforce ==
    \E second \in Users, c \in 1..DefaultMaxConnections, m \in TrafficCaps \ {0} :
        LET fresh == NewUser(m, DaySeconds * Ms, c)
            here == {"alice", second}
        IN /\ now = 0
           /\ users = [u \in Users |-> IF u \in here THEN Seen(fresh) ELSE fresh]
           /\ online = {[id |-> 1, username |-> "alice",
                         client_ip |-> "10.0.0.1", connected_at |-> 0],
                        [id |-> 2, username |-> second,
                         client_ip |-> "10.0.0.1", connected_at |-> 0]}
           /\ next_id = 3
           /\ counters = [u \in Users |-> IF u \in here THEN FirstReading
                                          ELSE [rx |-> 0, tx |-> 0]]
           /\ locked = {}
           /\ last_traffic = [u \in Users |-> IF u \in here THEN FirstReading
                                              ELSE NoEntry]
           /\ blocked_ips = [ip \in IPs |-> NoBlock]
           /\ blocked_file = <<>>
           /\ timers = <<>>
           /\ tick = NoTick(users)
           /\ tracked = [u \in Users |->
                            IF u \in here
                            THEN [first |-> FirstReading,
                                  credited |-> FirstReading.rx + FirstReading.tx,
                                  monotone |-> TRUE]
                            ELSE NoTrack]
           /\ spared = [u \in Users |-> {}]
           /\ budget = MaxEvents
           /\ faults = MaxFaults
           /\ running = [t \in TaskNames |-> Idle]

NextEnforce ==
    \/ UpdateUserTraffic
    \/ CheckQuotas
    \/ CheckConnectionLimits
    \/ \E username \in QuotaClients : Connect(username, "10.0.0.1")
    \/ \E username \in Users, reading \in Readings : Traffic(username, reading)
    \/ Advance(DaySeconds * Ms)

SpecEnforce == InitEnforce /\ [][NextEnforce]_vars

-----------------------------------------------------------------------------
(* The scheduler: the three jobs, their exceptions and their adapter calls *)

NextSched ==
    \/ UpdateUserTraffic
    \/ CheckQuotas
    \/ CheckConnectionLimits
    \/ UpdateUserTrafficSelectFails
    \/ CheckQuotasSelectFails
    \/ CheckConnectionLimitsSelectFails
    \/ UpdateUserTrafficSuspend
    \/ UpdateUserTrafficResume
    \/ \E task \in TaskNames : Hang(task)
    \/ \E username \in QuotaClients : Connect(username, "10.0.0.1")
    \/ Advance(DaySeconds * Ms)

SpecSched == InitEnforce /\ [][NextSched]_vars

\* the event loop resumes a coroutine whose awaited call has returned
SpecSchedFair == SpecSched /\ WF_vars(UpdateUserTrafficResume)

-----------------------------------------------------------------------------
(* Claims about the quota task and the traffic task *)

\* C3: after a committed quota check, every account with max_traffic > 0 and
\* used_traffic >= max_traffic is inactive, and if the check marked it inactive
\* while it had a live session, disconnect_user and lock_user were each called
\* exactly once for it.
C3_OverQuotaLockedOnce ==
    (tick.task = "quota" /\ tick.committed) =>
        \A u \in Users :
            (users[u].max_traffic > 0
             /\ users[u].used_traffic >= users[u].max_traffic) =>
                /\ ~users[u].is_active
                /\ (tick.pre[u].is_active /\ u \in tick.live) =>
                        /\ tick.disconnect_user[u] = 1
                        /\ tick.lock_user[u] = 1

\* C4: while no adapter call, file write or commit has failed, an inactive
\* account with a live session is not passed over by all the periodic tasks:
\* at least one of them issues a disconnect for it.
C4_InactiveIsDisconnected ==
    faults = MaxFaults =>
        \A u \in Users : spared[u] # {"traffic", "quota", "limit"}

\* C5: a committed quota check that finds the scheduled reset due for an
\* inactive (not expired) account leaves it with used_traffic = 0 and
\* is_active = TRUE, and called unlock_user for it exactly once.
C5_DueResetReactivates ==
    (tick.task = "quota" /\ tick.committed) =>
        \A u \in Users :
            (/\ needs_traffic_reset(tick.pre[u], now)
             /\ ~tick.pre[u].is_active
             /\ ~is_expired(tick.pre[u], now)) =>
                /\ users[u].used_traffic = 0
                /\ users[u].is_active
                /\ tick.unlock_user[u] = 1

\* C6: a committed quota check resets an account with reset_period_days > 0
\* (used_traffic = 0, last_reset_date = now) if and only if
\* now >= last_reset_date + reset_period_days; otherwise it leaves
\* last_reset_date and used_traffic alone.
C6_ResetIffDue ==
    (tick.task = "quota" /\ tick.committed) =>
        \A u \in Users :
            (tick.pre[u].reset_period_days > 0
             /\ tick.pre[u].last_reset_date # NoDate) =>
                IF now >= tick.pre[u].last_reset_date
                          + tick.pre[u].reset_period_days * DaySeconds * Ms
                THEN /\ users[u].used_traffic = 0
                     /\ users[u].last_reset_date = now
                ELSE /\ users[u].used_traffic = tick.pre[u].used_traffic
                     /\ users[u].last_reset_date = tick.pre[u].last_reset_date

\* C7: in a traffic task, the observation of a username that has no snapshot
\* entry yields delta 0, so it adds nothing to used_traffic.
C7_FirstObservationIsZero ==
    tick.task = "traffic" =>
        \A i \in 1..Len(tick.obs) : ~tick.obs[i].seen => tick.obs[i].delta = 0

\* C8: while nothing has failed and the counters of a session never went back,
\* the deltas computed since the first observation of the username sum to
\* (last rx + last tx) - (first rx + first tx), first being the first reading
\* observed.
C8_DeltasSumToDifference ==
    faults = MaxFaults =>
        \A u \in Users :
            (tracked[u].first # NoEntry /\ tracked[u].monotone
             /\ last_traffic[u] # NoEntry) =>
                tracked[u].credited =
                    (last_traffic[u].rx + last_traffic[u].tx)
                    - (tracked[u].first.rx + tracked[u].first.tx)

\* C9: in a traffic task, every observation of a username that has a snapshot
\* entry yields max(0, rx - last_rx) + max(0, tx - last_tx), never a negative
\* number, the snapshot then holds the last reading observed, and a committed
\* task adds exactly the deltas to used_traffic.
C9_ClampedDelta ==
    tick.task = "traffic" =>
        /\ \A i \in 1..Len(tick.obs) :
             LET o == tick.obs[i]
                 drx == o.traffic.rx - o.last.rx
                 dtx == o.traffic.tx - o.last.tx
             IN /\ o.delta >= 0
                /\ o.seen => o.delta = (IF drx > 0 THEN drx ELSE 0)
                                       + (IF dtx > 0 THEN dtx ELSE 0)
                /\ (\A j \in (i + 1)..Len(tick.obs) :
                        tick.obs[j].username # o.username)
                        => last_traffic[o.username] = o.traffic
        /\ tick.committed =>
             \A u \in Users :
                users[u].used_traffic >= tick.pre[u].used_traffic

C9_Witness ==
    /\ tick.task = "traffic"
    /\ \E i \in 1..Len(tick.obs) :
        /\ tick.obs[i].seen
        /\ tick.obs[i].traffic.rx < tick.obs[i].last.rx
        /\ tick.obs[i].traffic.tx > tick.obs[i].last.tx
        /\ tick.obs[i].delta = 1
        /\ last_traffic[tick.obs[i].username] = tick.obs[i].traffic

\* C10: a committed traffic task adds exactly the observed delta to
\* used_traffic, and an account that was under its cap (max_traffic > 0) and
\* whose used_traffic + delta reaches the cap ends the task inactive, with
\* disconnect_user and lock_user each called exactly once.
C10_DeltaThenCap ==
    (tick.task = "traffic" /\ tick.committed) =>
        \A u \in Users :
            /\ users[u].used_traffic = tick.pre[u].used_traffic + tick.delta[u]
            /\ (/\ tick.pre[u].max_traffic > 0
                /\ tick.pre[u].used_traffic < tick.pre[u].max_traffic
                /\ tick.pre[u].used_traffic + tick.delta[u]
                        >= tick.pre[u].max_traffic) =>
                    /\ ~users[u].is_active
                    /\ tick.disconnect_user[u] = 1
                    /\ tick.lock_user[u] = 1

C10_Witness ==
    /\ tick.task = "traffic"
    /\ tick.committed
    /\ \E u \in Users :
        /\ tick.pre[u].max_traffic = 2
        /\ tick.pre[u].used_traffic = 1
        /\ tick.pre[u].is_active
        /\ tick.delta[u] = 1
        /\ users[u].used_traffic = 2
        /\ ~users[u].is_active
        /\ tick.disconnect_user[u] = 1
        /\ tick.lock_user[u] = 1

-----------------------------------------------------------------------------
(* Claims about the account store *)

\* C11: in every step, an account's committed used_traffic decreases only if
\* the step is a quota task that found the scheduled reset due for it or a
\* manual reset of it, and then it becomes 0.
C11_UsedTrafficMonotone ==
    [][\A u \in Users :
        users'[u].used_traffic < users[u].used_traffic =>
            /\ users'[u].used_traffic = 0
            /\ \/ /\ tick'.task = "quota"
                  /\ needs_traffic_reset(users[u], now)
                  /\ users'[u].last_reset_date = now
               \/ /\ tick'.task = "reset_quota"
                  /\ tick'.reason[u] = "reset_quota"]_vars

C11_Witness ==
    /\ tick.task = "traffic"
    /\ tick.committed
    /\ \E i \in 1..Len(tick.obs) :
        LET o == tick.obs[i]
        IN /\ o.seen
           /\ o.traffic.rx + o.traffic.tx < o.last.rx + o.last.tx
           /\ tick.pre[o.username].used_traffic > 0
           /\ users[o.username].used_traffic
                = tick.pre[o.username].used_traffic

\* C12: after a committed traffic task, each account's current_connections is
\* the number of rows of the poll that carry its username.
C12_CurrentConnectionsIsCount ==
    (tick.task = "traffic" /\ tick.committed) =>
        \A u \in Users :
            users[u].current_connections
                = Cardinality({c \in tick.rows : c.username = u})

\* the usernames of the rows of the poll a traffic task saw
Polled == {c.username : c \in tick.rows}

\* C19: after a traffic task or a quota task whose commit failed, the users
\* table is the table before the task; after one whose commit succeeded, every
\* account carries the task's decision for it: the traffic task's delta is
\* added, an account it locked is inactive and an account absent from the poll
\* is offline; an account the quota task found due is reset, an account it
\* found over its cap or expired is inactive, and an account it did not
\* select is untouched.
C19_AllOrNothing ==
    /\ (tick.task \in {"traffic", "quota"} /\ ~tick.committed) =>
            users = tick.pre
    /\ (tick.task = "traffic" /\ tick.committed) =>
            \A u \in Users :
                /\ users[u].used_traffic
                        = tick.pre[u].used_traffic + tick.delta[u]
                /\ tick.lock_user[u] > 0 => ~users[u].is_active
                /\ u \notin Polled =>
                        /\ ~users[u].is_online
                        /\ users[u].is_active = tick.pre[u].is_active
    /\ (tick.task = "quota" /\ tick.committed) =>
            \A u \in Users :
                /\ ~tick.pre[u].is_active => users[u] = tick.pre[u]
                /\ (tick.pre[u].is_active
                        /\ needs_traffic_reset(tick.pre[u], now)) =>
                            /\ users[u].last_reset_date = now
                            /\ users[u].used_traffic = 0
                /\ users[u].is_active = (tick.pre[u].is_active
                                         /\ tick.reason[u] = "")

C19_Witness ==
    /\ tick.task = "quota"
    /\ ~tick.committed
    /\ \A u \in Users : tick.reason[u] # "" /\ users[u].is_active
    /\ users = tick.pre

\* the account as the quota task judges it: after the scheduled reset if due
Judged(u) ==
    IF needs_traffic_reset(tick.pre[u], now)
    THEN reset_traffic(tick.pre[u], now)
    ELSE tick.pre[u]

\* C20: whatever adapter calls fail, a traffic task observes every polled
\* account and issues disconnect_user and lock_user once for each account
\* whose delta takes it to its cap, and a quota task judges every account it
\* selected and issues both calls once for each one it finds over its cap or
\* expired and online; a task that commits leaves each of these accounts
\* inactive, the ones whose calls failed included; and a connection-limit
\* task issues disconnect_by_id for as many sessions of each account as it
\* holds above its max_connections.
C20_AdapterFailureDoesNotAbort ==
    /\ tick.task = "limit" =>
            \A u \in Users :
                LET held == {c \in tick.rows : c.username = u}
                IN Cardinality(held) > users[u].max_connections =>
                    Cardinality({c \in held : c.id \in tick.disconnect_by_id})
                        = Cardinality(held) - users[u].max_connections
    /\ tick.task = "traffic" =>
            /\ \A u \in Polled \cap Users :
                    \E i \in 1..Len(tick.obs) : tick.obs[i].username = u
            /\ \A u \in Users :
                    (/\ tick.delta[u] > 0
                     /\ tick.pre[u].max_traffic > 0
                     /\ tick.pre[u].used_traffic + tick.delta[u]
                            >= tick.pre[u].max_traffic) =>
                        /\ tick.disconnect_user[u] = 1
                        /\ tick.lock_user[u] = 1
                        /\ tick.committed => ~users[u].is_active
    /\ tick.task = "quota" =>
            \A u \in Users :
                (/\ tick.pre[u].is_active
                 /\ \/ is_traffic_exceeded(Judged(u))
                    \/ is_expired(Judged(u), now)) =>
                    /\ tick.reason[u] # ""
                    /\ tick.pre[u].is_online =>
                            /\ tick.disconnect_user[u] = 1
                            /\ tick.lock_user[u] = 1
                    /\ tick.committed => ~users[u].is_active

C20_Witness ==
    /\ tick.task = "quota"
    /\ tick.committed
    /\ tick.disconnect_user["alice"] = 1
    /\ "alice" \in Live(online)
    /\ tick.lock_user["alice"] = 1
    /\ "alice" \in locked
    /\ tick.reason["bob"] # ""
    /\ \A u \in Users : tick.pre[u].is_active /\ ~users[u].is_active

\* C21: when a quota task is followed by the next quota task, an account for
\* which the first issued a disconnect that failed (its session is still live)
\* and which is still over its cap or expired has the disconnect issued again;
\* when a connection-limit task is followed by the next one, a session whose
\* disconnect_by_id failed and that the next poll still reports has it issued
\* again.
C21_FailedActionRetried ==
    [][/\ (tick.task = "quota" /\ tick'.task = "quota") =>
            \A u \in Users :
                (/\ tick.disconnect_user[u] > 0
                 /\ u \in Live(online)
                 /\ \/ is_traffic_exceeded(users[u])
                    \/ is_expired(users[u], now)) =>
                    /\ tick'.disconnect_user[u] > 0
                    /\ tick'.lock_user[u] > 0
       /\ (tick.task = "limit" /\ tick'.task = "limit") =>
            \A c \in tick'.rows :
                c.id \in tick.disconnect_by_id \ tick.disconnected =>
                    c.id \in tick'.disconnect_by_id]_vars

-----------------------------------------------------------------------------
(* Claims about the scheduler *)

C23_TickEventuallyFinishes ==
    \A task \in TaskNames :
        (running[task] # Idle) ~> Free(task, running)

-----------------------------------------------------------------------------
(* Claims about the ban manager *)

\* the address has a record whose unblock_time is still in the future
Banned(ip) == blocked_ips[ip] # NoBlock /\ blocked_ips[ip].unblock_time > now

\* the address is a line of BLOCKED_FILE
InFile(ip) == \E i \in 1..Len(blocked_file) : blocked_file[i] = ip

\* a scheduled unblock of the address has finished its sleep and has not run yet
Due(ip) == \E i \in 1..Len(timers) : timers[i].ip = ip /\ timers[i].at <= now

\* C13: in every state in which no scheduled unblock of the address is waiting
\* to run, the address has an un-expired in-memory record if and only if it is
\* a line of the denylist file.
C13_RecordIffDenylisted ==
    \A ip \in IPs : ~Due(ip) => (Banned(ip) <=> InFile(ip))

\* the number of lines of the denylist file that hold the address
Occurrences(ip) == Cardinality({i \in 1..Len(blocked_file) : blocked_file[i] = ip})

\* C14: a ban appends the address only if it is not already in the denylist
\* file, so every banned address is a line of the file exactly once.
C14_DenylistedOnce ==
    \A ip \in IPs : Banned(ip) => Occurrences(ip) = 1

\* C15: a call of unblock_ip for an address that has no record and no line in
\* the denylist file changes neither; a call that returns True leaves the
\* address without a record and without a line; and a call that follows a
\* call for the same address that returned True changes neither the records
\* nor the file.
C15_UnblockIdempotent ==
    [][tick'.task = "unblock" =>
        /\ (blocked_ips[tick'.ip] = NoBlock /\ ~InFile(tick'.ip)) =>
                /\ blocked_ips' = blocked_ips
                /\ blocked_file' = blocked_file
        /\ tick'.ok =>
                /\ blocked_ips'[tick'.ip] = NoBlock
                /\ \A i \in 1..Len(blocked_file') : blocked_file'[i] # tick'.ip
        /\ (tick.task = "unblock" /\ tick.ok /\ tick.ip = tick'.ip) =>
                /\ blocked_ips' = blocked_ips
                /\ blocked_file' = blocked_file]_vars

C15_Witness ==
    /\ tick.task = "unblock"
    /\ tick.ok
    /\ tick.again
    /\ blocked_ips = tick.pre_blocked_ips
    /\ blocked_file = tick.pre_blocked_file
    /\ blocked_ips[tick.ip] = NoBlock
    /\ ~InFile(tick.ip)

\* the records of a scan's dict whose unblock_time was still in the future
Unexpired(b) == {ip \in IPs : b[ip] # NoBlock /\ b[ip].unblock_time > now}

\* C16 as stated: a scan returns exactly the records whose unblock_time is in
\* the future, each with a remaining time above 0, and leaves no elapsed
\* record in the dict.
C16_ListActive ==
    tick.task = "list" =>
        /\ {e.ip : e \in tick.returned} = Unexpired(tick.pre_blocked_ips)
        /\ \A e \in tick.returned : e.remaining_seconds > 0
        /\ \A ip \in IPs : blocked_ips[ip] # NoBlock => Banned(ip)

\* C16, amended: a scan returns exactly the records whose unblock_time is in
\* the future, each with the whole seconds that remain (0 in the last second),
\* never a record whose unblock_time has elapsed, and leaves in the dict the
\* returned records and nothing else.
C16_ListActiveWholeSeconds ==
    tick.task = "list" =>
        /\ {e.ip : e \in tick.returned} = Unexpired(tick.pre_blocked_ips)
        /\ \A e \in tick.returned :
            /\ e.remaining_seconds >= 0
            /\ e.remaining_seconds * Ms
                    <= tick.pre_blocked_ips[e.ip].unblock_time - now
            /\ tick.pre_blocked_ips[e.ip].unblock_time - now
                    < (e.remaining_seconds + 1) * Ms
            /\ e.username = tick.pre_blocked_ips[e.ip].username
        /\ \A ip \in IPs :
            blocked_ips[ip] = IF ip \in Unexpired(tick.pre_blocked_ips)
                              THEN tick.pre_blocked_ips[ip]
                              ELSE NoBlock

C16_Witness ==
    /\ tick.task = "list"
    /\ \E ip \in IPs :
        /\ tick.pre_blocked_ips[ip] # NoBlock
        /\ tick.pre_blocked_ips[ip].unblock_time <= now
        /\ Due(ip)
        /\ InFile(ip)
        /\ blocked_ips[ip] = NoBlock
        /\ \A e \in tick.returned : e.ip # ip
    /\ \E e \in tick.returned : Banned(e.ip)

\* C17: once the sleep of a scheduled unblock of an address is over, the
\* address eventually has no record and no line in the denylist file.
C17_BanEventuallyLifted ==
    \A ip \in IPs :
        Due(ip) ~> (blocked_ips[ip] = NoBlock /\ ~InFile(ip))

\* C18: after a call of _temp_block_ip whose write to the denylist file
\* failed, the address has a record made by that call and get_blocked_ips
\* returns it.
C18_RecordDespiteWriteFailure ==
    (tick.task = "ban" /\ ~tick.ok) =>
        /\ blocked_ips[tick.ip] # NoBlock
        /\ blocked_ips[tick.ip].blocked_at = now
        /\ \E e \in get_blocked_ips(blocked_ips, now) : e.ip = tick.ip

\* C35: a step in which a scheduled unblock runs removes no record whose
\* unblock_time has not elapsed, and leaves the address of such a record in
\* the denylist file.
C35_OnlyOwnBanLifted ==
    [][Len(timers') < Len(timers) =>
        \A ip \in IPs :
            (blocked_ips[ip] # NoBlock /\ blocked_ips[ip].unblock_time > now) =>
                /\ blocked_ips'[ip] = blocked_ips[ip]
                /\ \E i \in 1..Len(blocked_file') : blocked_file'[i] = ip]_vars

-----------------------------------------------------------------------------
(* Claims about the connection-limit task *)

\* the rows the last task polled for one username
RowsOf(username) == {c \in tick.rows : c.username = username}

\* the rows of one username the last task issued a disconnect for
Hit(username) == {c \in RowsOf(username) : c.id \in tick.disconnect_by_id}

\* C1: right after a connection-limit task, for every account with N polled
\* sessions and max_connections = M < N a disconnect was issued for exactly
\* N - M of them, every one of these has a higher id than every session that
\* was spared, the M spared (oldest) sessions are still connected, and the
\* selected sessions are gone exactly where the daemon carried the call out.
C1_DisconnectsTheNewest ==
    tick.task = "limit" =>
        \A u \in Users :
            LET N == Cardinality(RowsOf(u))
                M == users[u].max_connections
            IN N > M =>
                /\ Cardinality(Hit(u)) = N - M
                /\ \A c \in Hit(u), d \in RowsOf(u) \ Hit(u) : c.id > d.id
                /\ \A d \in RowsOf(u) \ Hit(u) :
                        d.id \notin tick.disconnected /\ d \in online
                /\ \A c \in Hit(u) :
                        c.id \in tick.disconnected <=> c \notin online

C1_Witness ==
    /\ tick.task = "limit"
    /\ \E u \in Users :
        /\ Cardinality(RowsOf(u)) = 3
        /\ users[u].max_connections = 2
        /\ {c.id : c \in Hit(u)} = {3}
        /\ tick.disconnected = {3}
        /\ {c.id : c \in online} = {1, 2}

\* C2: right after a connection-limit task, the client address of every excess
\* session whose disconnect succeeded is returned by get_blocked_ips with
\* 0 < remaining_seconds <= 86400.
C2_DisconnectedIsBanned ==
    tick.task = "limit" =>
        \A u \in Users : \A c \in Hit(u) :
            c.id \in tick.disconnected =>
                \E e \in get_blocked_ips(blocked_ips, now) :
                    /\ e.ip = c.client_ip
                    /\ e.remaining_seconds > 0
                    /\ e.remaining_seconds <= BanSeconds

\* C33: a step that creates or renews the record of an address is a step of
\* the connection-limit task that polled a session from that address, of an
\* account with more polled sessions than its max_connections, among the
\* newest ones above the limit, whose disconnect the daemon carried out.
C33_BanOnlyAfterDisconnect ==
    [][\A ip \in IPs :
        (blocked_ips'[ip] # NoBlock /\ blocked_ips'[ip] # blocked_ips[ip]) =>
            /\ tick'.task = "limit"
            /\ \E u \in Users : \E c \in tick'.rows :
                LET mine == {d \in tick'.rows : d.username = u}
                IN /\ c \in mine
                   /\ c.client_ip = ip
                   /\ c.id \in tick'.disconnected
                   /\ Cardinality(mine) > users[u].max_connections
                   /\ Cardinality({d \in mine : d.id < c.id})
                        >= users[u].max_connections]_vars

\* of two sessions above the limit the daemon drops one: its address is
\* banned, the address of the other is not
C33_Witness ==
    /\ tick.task = "limit"
    /\ \E u \in Users : \E c, d \in Hit(u) :
        /\ c.id \in tick.disconnected
        /\ blocked_ips[c.client_ip] # NoBlock
        /\ d.id \notin tick.disconnected
        /\ d \in online
        /\ blocked_ips[d.client_ip] = NoBlock

\* C39: whichever adapter delivered the session list, a step of the
\* connection-limit task leaves the address of every session of an account
\* that it disconnected banned for BanSeconds, unless the ban could not be
\* written, and has issued a disconnect for every "(none)" session connected
\* for longer than the grace window.
C39_SameOnRemoteList ==
    [][tick'.task = "limit" =>
        \A c \in online :
            /\ (c.username \in Users /\ c.id \in tick'.disconnected
                /\ c.client_ip \notin tick'.write_failed) =>
                    /\ blocked_ips'[c.client_ip] # NoBlock
                    /\ blocked_ips'[c.client_ip].unblock_time
                            = now + BanSeconds * Ms
            /\ (c.username = NONE /\ tick'.rows # {}
                /\ now - c.connected_at > GraceSeconds * Ms) =>
                    c.id \in tick'.disconnect_by_id]_vars

\* C24: right after a connection-limit task, a disconnect was issued for a
\* polled "(none)" session exactly if its connected_at lay more than 120
\* seconds back, the ones within the window are still connected, the ones
\* whose disconnect the daemon carried out are gone, and an account with no
\* more polled sessions of its own than its max_connections had no
\* disconnect issued, however many "(none)" sessions there were.
C24_UnresolvedSessions ==
    tick.task = "limit" =>
        /\ \A c \in RowsOf(NONE) :
            /\ c.id \in tick.disconnect_by_id
                    <=> now - c.connected_at > GraceSeconds * Ms
            /\ c.id \notin tick.disconnect_by_id => c \in online
            /\ c.id \in tick.disconnected => c \notin online
        /\ \A u \in Users :
            Cardinality(RowsOf(u)) <= users[u].max_connections =>
                Hit(u) = {}

C24_Witness ==
    /\ tick.task = "limit"
    /\ \E c, d \in RowsOf(NONE) :
        /\ now - c.connected_at > GraceSeconds * Ms
        /\ c.id \in tick.disconnected
        /\ c \notin online
        /\ now - d.connected_at <= GraceSeconds * Ms
        /\ d.id \notin tick.disconnect_by_id
        /\ d \in online

-----------------------------------------------------------------------------
(* The traffic task interleaved with the quota task and the operator *)

\* alice is online and credited; while the traffic task awaits
\* get_user_traffic for her, the quota task and reset_quota run and commit
NextRace ==
    \/ UpdateUserTrafficSuspend
    \/ UpdateUserTrafficResume
    \/ UpdateUserTraffic
    \/ CheckQuotas
    \/ \E username \in QuotaClients, m \in TrafficCaps : ResetQuota(username, m)
    \/ \E username \in QuotaClients, reading \in Readings :
            Traffic(username, reading)
    \/ Advance(DaySeconds * Ms)

SpecRace == InitEnforce /\ [][NextRace]_vars

-----------------------------------------------------------------------------
(* The quota task over accounts in every state it can find them in *)

\* an account some time after it was created: traffic tasks have credited
\* `used` bytes to it, under its present cap or under a cap the operator has
\* changed since (update_user), and the last one has left is_online as `seen`
Used(a, used, seen) ==
    [a EXCEPT !.used_traffic = used,
              !.is_online = seen,
              !.current_connections = IF seen THEN 1 ELSE 0]

\* used_traffic from nothing up to the largest cap
UsedLevels == 0..(CHOOSE m \in TrafficCaps : \A k \in TrafficCaps : k <= m)

\* alice with or without a session; a session the traffic task has seen has
\* its reading in the snapshot map
InitOrder ==
    \E a \in Accounts, used \in UsedLevels, live \in BOOLEAN, seen \in BOOLEAN :
        /\ now = 0
        /\ users = [u \in Users |->
                        IF u \in QuotaClients THEN Used(a, used, seen)
                        ELSE NewUser(0, NoDate, DefaultMaxConnections)]
        /\ online = IF live
                    THEN {[id |-> 1, username |-> "alice",
                           client_ip |-> "10.0.0.1", connected_at |-> 0]}
                    ELSE {}
        /\ next_id = IF live THEN 2 ELSE 1
        /\ counters = [u \in Users |->
                          IF u \in QuotaClients /\ live /\ seen
                          THEN FirstReading ELSE [rx |-> 0, tx |-> 0]]
        /\ locked = {}
        /\ last_traffic = [u \in Users |->
                              IF u \in QuotaClients /\ live /\ seen
                              THEN FirstReading ELSE NoEntry]
        /\ blocked_ips = [ip \in IPs |-> NoBlock]
        /\ blocked_file = <<>>
        /\ timers = <<>>
        /\ tick = NoTick(users)
        /\ tracked = [u \in Users |->
                         IF u \in QuotaClients /\ live /\ seen
                         THEN [first |-> FirstReading,
                               credited |-> FirstReading.rx + FirstReading.tx,
                               monotone |-> TRUE]
                         ELSE NoTrack]
        /\ spared = [u \in Users |-> {}]
        /\ budget = MaxEvents
        /\ faults = MaxFaults
        /\ running = [t \in TaskNames |-> Idle]

NextOrder ==
    \/ CheckQuotas
    \/ UpdateUserTraffic
    \/ \E username \in QuotaClients, m \in TrafficCaps : UpdateUser(username, m)
    \/ \E d \in QuotaSteps : Advance(d)

SpecOrder == InitOrder /\ [][NextOrder]_vars

-----------------------------------------------------------------------------
(* The three periodic tasks alone, over accounts in every state *)

\* alice connected, with nothing credited to her yet
InitAuto ==
    /\ InitOrder
    /\ online # {}
    /\ \A u \in Users : users[u].used_traffic = 0

NextAuto ==
    \/ UpdateUserTraffic
    \/ CheckQuotas
    \/ CheckConnectionLimits
    \/ \E username \in QuotaClients, reading \in Readings :
            Traffic(username, reading)
    \/ Advance(DaySeconds * Ms)

SpecAuto == InitAuto /\ [][NextAuto]_vars

-----------------------------------------------------------------------------
(* Claims about the operator's requests *)

\* C25: a successful manual reset of an account's quota leaves the account with
\* used_traffic = 0 and last_reset_date = now, active, and has issued an unlock
\* for it.
C25_ManualReset ==
    (tick.task = "reset_quota" /\ tick.committed) =>
        \A u \in Users :
            tick.reason[u] = "reset_quota" =>
                /\ users[u].used_traffic = 0
                /\ users[u].last_reset_date = now
                /\ users[u].is_active
                /\ tick.unlock_user[u] = 1

\* C26: a committed run of the traffic task leaves every account with the
\* used_traffic that was committed when the run wrote, plus the delta the run
\* found: no value committed by another task or request since the run read the
\* account is overwritten.
C26_NoStaleOverwrite ==
    (tick.task = "traffic" /\ tick.committed) =>
        \A u \in Users :
            users[u].used_traffic = tick.pre[u].used_traffic + tick.delta[u]

-----------------------------------------------------------------------------
(* Claims about the shared structures *)

\* C27: the ban records change only in a step of the connection-limit task and
\* the traffic snapshot map changes only in a step of the traffic and quota
\* jobs; no scheduled callback and no request writes either of them.
C27_SingleWriter ==
    [][/\ blocked_ips' # blocked_ips => tick'.task = "limit"
       /\ last_traffic' # last_traffic => tick'.task \in {"traffic", "quota"}]_vars

-----------------------------------------------------------------------------
(* Claims about the order of the checks in check_quotas *)

\* C28: a committed quota check that judges an active account both over its
\* traffic cap and past its expiry date leaves it inactive with the reason
\* traffic_exceeded, and if the account had a live session disconnect_user
\* and lock_user were each called exactly once for it.
C28_TieIsTrafficExceeded ==
    (tick.task = "quota" /\ tick.committed) =>
        \A u \in Users :
            (/\ tick.pre[u].is_active
             /\ is_traffic_exceeded(Judged(u))
             /\ is_expired(Judged(u), now)) =>
                /\ ~users[u].is_active
                /\ tick.reason[u] = "traffic_exceeded"
                /\ u \in tick.live =>
                        /\ tick.disconnect_user[u] = 1
                        /\ tick.lock_user[u] = 1

\* C29: a committed quota check that finds an active, not expired account
\* over its traffic cap with its scheduled reset due leaves it with
\* used_traffic = 0 and is_active = TRUE, and calls neither disconnect_user
\* nor lock_user for it.
C29_ResetBeforeEnforce ==
    (tick.task = "quota" /\ tick.committed) =>
        \A u \in Users :
            (/\ tick.pre[u].is_active
             /\ ~is_expired(tick.pre[u], now)
             /\ is_traffic_exceeded(tick.pre[u])
             /\ needs_traffic_reset(tick.pre[u], now)) =>
                /\ users[u].used_traffic = 0
                /\ users[u].last_reset_date = now
                /\ users[u].is_active
                /\ tick.reason[u] = ""
                /\ tick.disconnect_user[u] = 0
                /\ tick.lock_user[u] = 0

C29_Witness ==
    /\ tick.task = "quota"
    /\ tick.committed
    /\ \E u \in Users :
        /\ tick.pre[u].is_active
        /\ tick.pre[u].is_online
        /\ u \in tick.live
        /\ ~is_expired(tick.pre[u], now)
        /\ is_traffic_exceeded(tick.pre[u])
        /\ needs_traffic_reset(tick.pre[u], now)
        /\ users[u].used_traffic = 0
        /\ users[u].is_active
        /\ u \in Live(online)

\* C30: after a committed quota check no account is both active and past its
\* expiry date; an active account that is not over its traffic cap and whose
\* expire_date is set and strictly before now is left inactive with the
\* reason expired, and an account whose expire_date is unset or not before
\* now is not given that reason.
C30_ExpiredStrictly ==
    (tick.task = "quota" /\ tick.committed) =>
        \A u \in Users :
            /\ ~(users[u].is_active /\ is_expired(users[u], now))
            /\ (/\ tick.pre[u].is_active
                /\ ~is_traffic_exceeded(Judged(u))
                /\ tick.pre[u].expire_date # NoDate
                /\ now > tick.pre[u].expire_date) =>
                    /\ ~users[u].is_active
                    /\ tick.reason[u] = "expired"
            /\ (tick.pre[u].expire_date = NoDate
                \/ now <= tick.pre[u].expire_date) =>
                    tick.reason[u] # "expired"

\* a quota check that marks an account past its expiry date and leaves the
\* account without a date active
C30_Witness ==
    /\ tick.task = "quota"
    /\ tick.committed
    /\ \E u, v \in Users :
        /\ tick.pre[u].is_active
        /\ tick.pre[u].expire_date # NoDate
        /\ now > tick.pre[u].expire_date
        /\ tick.reason[u] = "expired"
        /\ ~users[u].is_active
        /\ tick.pre[v].expire_date = NoDate
        /\ users[v].is_active

-----------------------------------------------------------------------------
(* Claims about what the periodic tasks leave in the account store *)

\* C31: a step that turns an account's is_active from FALSE to TRUE is not a
\* step of the traffic task or of the connection-limit task, and if it is a
\* step of the quota task the account's scheduled reset was due.
C31_OnlyResetReactivates ==
    [][\A u \in Users :
        (~users[u].is_active /\ users'[u].is_active) =>
            /\ tick'.task \notin {"traffic", "limit"}
            /\ tick'.task = "quota" => needs_traffic_reset(users[u], now)]_vars

\* a traffic task credits bytes to an inactive account that is under its cap
\* and leaves it inactive
C31_Witness ==
    /\ tick.task = "traffic"
    /\ tick.committed
    /\ \E u \in Users :
        /\ ~tick.pre[u].is_active
        /\ tick.delta[u] > 0
        /\ ~is_traffic_exceeded(users[u])
        /\ ~users[u].is_active

\* C32: after a traffic task that ran to its commit the snapshot map has no
\* entry for a username that was not in the task's poll and holds the reading
\* of every account that was, so that a username that comes back is observed
\* as one without an entry.
C32_AbsentIsEvicted ==
    (tick.task = "traffic" /\ tick.committed) =>
        /\ \A u \in Users \ Polled : last_traffic[u] = NoEntry
        /\ \A u \in Users \cap Polled : last_traffic[u] # NoEntry

\* an account the previous traffic task had credited and left online has
\* disconnected, is missing from this poll and has lost its entry
C32_Witness ==
    /\ tick.task = "traffic"
    /\ tick.committed
    /\ \E u \in Users \ Polled :
        /\ u \notin tick.live
        /\ tick.pre[u].is_online
        /\ tick.pre[u].used_traffic > 0
        /\ last_traffic[u] = NoEntry
        /\ ~users[u].is_online

\* C34: after a committed traffic task an account's is_online is TRUE exactly
\* if a session with its username was in the task's poll.
C34_OnlineIffPolled ==
    (tick.task = "traffic" /\ tick.committed) =>
        \A u \in Users : users[u].is_online <=> u \in Polled

\* C36: a committed quota check has called lock_user for every account it
\* marked inactive, whatever the account's stored is_online was.
C36_DeactivatedIsLocked ==
    (tick.task = "quota" /\ tick.committed) =>
        \A u \in Users :
            (tick.pre[u].is_active /\ ~users[u].is_active) =>
                tick.lock_user[u] >= 1

-----------------------------------------------------------------------------
(* Claims about failures during the traffic task *)

\* C37: a traffic task whose poll came back empty while sessions were
\* connected changes no account's is_online or current_connections and
\* removes no snapshot entry.
C37_FailedPollIsNotEmpty ==
    [][(tick'.task = "traffic" /\ tick'.rows = {} /\ tick'.live # {}) =>
        /\ \A u \in Users :
            /\ users'[u].is_online = users[u].is_online
            /\ users'[u].current_connections = users[u].current_connections
        /\ last_traffic' = last_traffic]_vars

\* C38: a traffic task that raised and was rolled back leaves the snapshot
\* map as it was before the task.
C38_RollbackKeepsSnapshot ==
    [][(tick'.task = "traffic" /\ ~tick'.committed) =>
        last_traffic' = last_traffic]_vars

-----------------------------------------------------------------------------
(* Claims about accounts with several sessions *)

\* the observations a traffic task made of one username, in order
ObsOf(u) == SelectSeq(tick.obs, LAMBDA o : o.username = u)

\* C40: a traffic task that polled more than one session of an account and
\* read the same counters for it at every row has observed the account once
\* per row and has added max(0, rx - last_rx) + max(0, tx - last_tx) in all,
\* last being the snapshot the task started with; a committed task has
\* increased used_traffic by exactly that.
C40_CreditedOncePerPoll ==
    tick.task = "traffic" =>
        \A u \in Users :
            (/\ Cardinality({c \in tick.rows : c.username = u}) > 1
             /\ Len(ObsOf(u)) > 1
             /\ \A i \in 1..Len(ObsOf(u)) :
                    ObsOf(u)[i].traffic = ObsOf(u)[1].traffic) =>
                LET first == ObsOf(u)[1]
                    once == Max(0, first.traffic.rx - first.last.rx)
                            + Max(0, first.traffic.tx - first.last.tx)
                IN /\ Len(ObsOf(u))
                        = Cardinality({c \in tick.rows : c.username = u})
                   /\ tick.delta[u] = once
                   /\ tick.committed =>
                        users[u].used_traffic
                            = tick.pre[u].used_traffic + once

\* two sessions of one account, one more byte on its counters: one byte is
\* credited
C40_Witness ==
    /\ tick.task = "traffic"
    /\ tick.committed
    /\ \E u \in Users :
        /\ Cardinality({c \in tick.rows : c.username = u}) = 2
        /\ Len(ObsOf(u)) = 2
        /\ ObsOf(u)[1].traffic = ObsOf(u)[2].traffic
        /\ ObsOf(u)[1].seen
        /\ ObsOf(u)[1].delta = 1
        /\ ObsOf(u)[2].delta = 0
        /\ users[u].used_traffic = tick.pre[u].used_traffic + 1

====
